---- MODULE Spec2Model ----
(***************************************************************************)
(* factorio-lsp-plugin: the Type decoder (pkg/api/types.go), the Type      *)
(* translator and the annotation sites (pkg/generator/generator.go), and   *)
(* the run of main (main.go, pkg/api/loader.go).                           *)
(*                                                                         *)
(* A Go string is a sequence of one-character strings, so that escaping,   *)
(* substring search and concatenation are computed character by character. *)
(* A Go pointer is a sequence of length 0 (nil) or 1 (the pointee).        *)
(***************************************************************************)
EXTENDS Naturals, Sequences, FiniteSets, TLC

VARIABLES
    data,       \* the JSON value found at one "type" position of the document
    pc,         \* "loaded" | "decoded" | "failed" | "generated", and in the
                \* call-by-call view "translating" | "translated"
    t,          \* the decoded api.Type (the zero Type until decoded)
    err,        \* whether Type.UnmarshalJSON returned a non-nil error
    builtinErr, \* whether the value case "builtin" returns was taken for an error
    site,       \* which generator function rendered the type
    nullable,   \* the Nullable flag of the site's entity
    optional,   \* the Optional flag of the site's entity
    base,       \* the result of translateFactorioTypeToLuaLS at the site
    luaLSType,  \* the type string written into the annotation
    pending,    \* the Types on which translateFactorioTypeToLuaLS is yet to be called
    calls,      \* how many calls of translateFactorioTypeToLuaLS were made
    returned,   \* the calls made so far: the Type passed and the string returned
    served,     \* what the runtime and the prototype URL answer
    mpc,        \* where main is: "start" | "runtimeLoaded" | "prototypeLoaded" |
                \* "generated" | "dirReady" | "done" | "fatal"
    runtimeAPI,   \* the api.API the runtime document was parsed into
    prototypeAPI, \* the api.API the prototype document was parsed into
    definitions,  \* the map GenerateDefinitions returned: file name to content
    files         \* the files written into the output directory

\* the state of the run as a whole
mainVars == <<served, mpc, runtimeAPI, prototypeAPI, definitions, files>>

\* the state of one type position
typeVars == <<data, pc, t, err, builtinErr, site, nullable, optional, base,
              luaLSType, pending, calls, returned>>

vars == <<data, pc, t, err, builtinErr, site, nullable, optional, base, luaLSType,
          pending, calls, returned,
          served, mpc, runtimeAPI, prototypeAPI, definitions, files>>

(***************************************************************************)
(* Bounds of the model.                                                    *)
(***************************************************************************)
\* longest string literal value drawn as an input
MaxStrLen == 2
\* how many thin wrappers (array, type, dictionary, union) surround a node
MaxWrap == 1

(***************************************************************************)
(* Characters and the string literals of the source.                       *)
(***************************************************************************)
QUOTE == "\""
BSLASH == "\\"
LF == "\n"
CR == "\r"
TAB == "\t"

\* The string literals the decoder and the generator compare with or emit.
Str ==
    [ empty      |-> << >>,
      string     |-> <<"s","t","r","i","n","g">>,
      int        |-> <<"i","n","t">>,
      uint       |-> <<"u","i","n","t">>,
      long       |-> <<"l","o","n","g">>,
      ulong      |-> <<"u","l","o","n","g">>,
      float      |-> <<"f","l","o","a","t">>,
      double     |-> <<"d","o","u","b","l","e">>,
      number     |-> <<"n","u","m","b","e","r">>,
      boolean    |-> <<"b","o","o","l","e","a","n">>,
      table      |-> <<"t","a","b","l","e">>,
      nil        |-> <<"n","i","l">>,
      object     |-> <<"o","b","j","e","c","t">>,
      any        |-> <<"a","n","y">>,
      LuaObject  |-> <<"L","u","a","O","b","j","e","c","t">>,
      void       |-> <<"v","o","i","d">>,
      array      |-> <<"a","r","r","a","y">>,
      dictionary |-> <<"d","i","c","t","i","o","n","a","r","y">>,
      union      |-> <<"u","n","i","o","n">>,
      literal    |-> <<"l","i","t","e","r","a","l">>,
      type       |-> <<"t","y","p","e">>,
      struct     |-> <<"s","t","r","u","c","t">>,
      tuple      |-> <<"t","u","p","l","e">>,
      builtin    |-> <<"b","u","i","l","t","i","n">>,
      true       |-> <<"t","r","u","e">>,
      false      |-> <<"f","a","l","s","e">>,
      brackets   |-> <<"[","]">>,
      tableOpen  |-> <<"t","a","b","l","e","<">>,
      commaSpace |-> <<",", " ">>,
      tableClose |-> <<">">>,
      bar        |-> <<" ","|"," ">>,
      barNil     |-> <<"|"," ","n","i","l">>,
      orNil      |-> <<" ","|"," ","n","i","l">>,
      braceOpen  |-> <<"{">>,
      braceClose |-> <<"}">>,
      colonSpace |-> <<":"," ">> ]

\* What a nil-pointer dereference evaluates to: the goroutine panics.  No Go
\* string equals it, its one element not being a character.
PANIC == <<"panic: nil pointer dereference">>

\* s + t of Go strings; a panic in either operand propagates.
Cat(a, b) == IF a = PANIC \/ b = PANIC THEN PANIC ELSE a \o b

\* strings.Contains(s, substr)
Contains(s, substr) ==
    \E i \in 1..(Len(s) + 1) :
        /\ i + Len(substr) - 1 <= Len(s)
        /\ SubSeq(s, i, i + Len(substr) - 1) = substr

\* strings.ReplaceAll(s, old, new) for a non-empty old: the non-overlapping
\* occurrences of old, found from the left, are replaced by new.
RECURSIVE ReplaceAll(_, _, _)
ReplaceAll(s, old, new) ==
    IF Len(s) < Len(old) THEN s
    ELSE IF SubSeq(s, 1, Len(old)) = old
         THEN new \o ReplaceAll(SubSeq(s, Len(old) + 1, Len(s)), old, new)
         ELSE <<Head(s)>> \o ReplaceAll(Tail(s), old, new)

\* strings.Join(elems, sep)
RECURSIVE Join(_, _)
Join(elems, sep) ==
    IF elems = << >> THEN << >>
    ELSE IF Len(elems) = 1 THEN elems[1]
    ELSE Cat(Cat(elems[1], sep), Join(Tail(elems), sep))

Digit(d) == <<"0","1","2","3","4","5","6","7","8","9">>[d + 1]

\* fmt.Sprintf("%d", n) for n >= 0
RECURSIVE FormatInt(_)
FormatInt(n) ==
    IF n < 10 THEN <<Digit(n)>> ELSE FormatInt(n \div 10) \o <<Digit(n % 10)>>

\* strconv's shortest decimal digits of an integer-valued float64, its
\* trailing zeros dropped.
RECURSIVE StripZeros(_)
StripZeros(ds) ==
    IF Len(ds) > 1 /\ ds[Len(ds)] = "0" THEN StripZeros(SubSeq(ds, 1, Len(ds) - 1))
    ELSE ds

\* The precision below which %v of a float64 uses the %f form: strconv's
\* eprec for the shortest representation.
ShortestEprec == 6

\* fmt.Sprintf("%v", val) of a float64 holding the natural number n (every
\* JSON number decodes to float64): %g with the shortest digits, which is the
\* %e form once the decimal exponent reaches ShortestEprec.
FormatFloat(n) ==
    LET ds  == FormatInt(n)
        exp == Len(ds) - 1
        m   == StripZeros(ds)
    IN  IF exp < ShortestEprec THEN ds
        ELSE <<Head(m)>>
             \o (IF Len(m) > 1 THEN <<".">> \o Tail(m) ELSE << >>)
             \o <<"e", "+">>
             \o (IF exp < 10 THEN <<"0">> ELSE << >>)
             \o FormatInt(exp)

(***************************************************************************)
(* JSON values, as encoding/json sees them.                                *)
(***************************************************************************)
JNull == [k |-> "null"]
JString(s) == [k |-> "string", s |-> s]
JNumber(n) == [k |-> "number", n |-> n]
JBool(b) == [k |-> "bool", b |-> b]
JArray(a) == [k |-> "array", a |-> a]
\* An object, by the members the decoder reads: each is << >> when the object
\* has no such member and <<v>> when it has it with value v.  Members under
\* other keys are ignored by the decoder and are not represented, but for
\* "description", which no field of the decoder's temp struct is tagged with.
\* "BasicMemberRaw" is the key encoding/json gives the field BasicMemberRaw,
\* whose tag `json:",inline"` names no key (inline is no option it knows).
JObject(complex_type, name, value, key, values) ==
    [k |-> "object", complex_type |-> complex_type, name |-> name,
     full_format |-> << >>, value |-> value, key |-> key, values |-> values,
     description |-> << >>, BasicMemberRaw |-> << >>]

\* json.RawMessage of member key: empty when the object has no such member
Raw(j, key) == j[key]

(***************************************************************************)
(* api.Type and its decoder.                                               *)
(***************************************************************************)
\* interface{} values json.Unmarshal stores for LiteralValue
NilValue == [kind |-> "nil"]

\* The zero api.Type.
ZeroType ==
    [ Name         |-> << >>,
      ComplexType  |-> << >>,
      Value        |-> << >>,
      Key          |-> << >>,
      Values       |-> << >>,
      LiteralValue |-> NilValue,
      FullFormat   |-> FALSE,
      BasicMember  |-> [Name |-> << >>, Description |-> << >>] ]

\* The zero api.API: no collection is present.
ZeroAPI ==
    [ Classes |-> << >>, Events |-> << >>, Defines |-> << >>,
      GlobalObjects |-> << >>, Concepts |-> << >>, Prototypes |-> << >> ]

\* json.Unmarshal(data, &stringValue): a JSON string is stored, null leaves
\* the empty string, anything else is an UnmarshalTypeError.
UnmarshalString(j) ==
    CASE j.k = "string" -> [err |-> FALSE, s |-> j.s]
      [] j.k = "null"   -> [err |-> FALSE, s |-> << >>]
      [] OTHER          -> [err |-> TRUE,  s |-> << >>]

\* Whether member key of object j can be stored in a Go field of JSON kind
\* kind: absent, null, or of that kind.
MemberFits(j, key, kind) ==
    j[key] = << >> \/ j[key][1].k \in {kind, "null"}

\* A string member whose json tag matches no key: it is never filled.
StringMember_Lost(j, key) == << >>

\* The value of a string member, "" when absent or null.
StringMember(j, key) ==
    IF j[key] # << >> /\ j[key][1].k = "string" THEN j[key][1].s ELSE << >>

\* json.Unmarshal(data, &temp): data must be an object (or null) whose name
\* and complex_type are strings and whose full_format is a boolean.
UnmarshalTemp(j) ==
    IF j.k = "object"
    THEN [ err         |-> ~ ( /\ MemberFits(j, "name", "string")
                               /\ MemberFits(j, "complex_type", "string")
                               /\ MemberFits(j, "full_format", "bool") ),
           Name        |-> StringMember(j, "name"),
           ComplexType |-> StringMember(j, "complex_type"),
           FullFormat  |-> IF j.full_format # << >> /\ j.full_format[1].k = "bool"
                           THEN j.full_format[1].b ELSE FALSE,
           ValueRaw    |-> Raw(j, "value"),
           KeyRaw      |-> Raw(j, "key"),
           ValuesRaw   |-> Raw(j, "values"),
           BasicMemberRaw |-> Raw(j, "BasicMemberRaw") ]
    ELSE [ err |-> j.k # "null", Name |-> << >>, ComplexType |-> << >>,
           FullFormat |-> FALSE, ValueRaw |-> << >>, KeyRaw |-> << >>,
           ValuesRaw |-> << >>, BasicMemberRaw |-> << >> ]

\* json.Unmarshal(temp.BasicMemberRaw, &bm): an object (or null) whose name
\* and description are strings
UnmarshalBasicMember(j) ==
    IF j.k = "object"
    THEN [ err |-> ~ ( /\ MemberFits(j, "name", "string")
                       /\ MemberFits(j, "description", "string") ),
           bm  |-> [Name        |-> StringMember(j, "name"),
                    Description |-> StringMember(j, "description")] ]
    ELSE [ err |-> j.k # "null", bm |-> ZeroType.BasicMember ]

\* The BasicMember of the decoded Type: what temp.BasicMemberRaw holds, when
\* it is there, is neither null nor {} and unmarshals; the zero value
\* otherwise.  (An object none of whose members is represented stands for {}
\* too: it unmarshals to the zero value.)
DecodeBasicMember(temp) ==
    IF /\ Len(temp.BasicMemberRaw) > 0
       /\ temp.BasicMemberRaw[1].k # "null"
    THEN LET r == UnmarshalBasicMember(temp.BasicMemberRaw[1])
         IN  IF r.err THEN ZeroType.BasicMember ELSE r.bm
    ELSE ZeroType.BasicMember

\* json.Unmarshal(temp.ValueRaw, &val) with val an interface{}
UnmarshalInterface(j) ==
    CASE j.k = "null"   -> NilValue
      [] j.k = "number" -> [kind |-> "float64", n |-> j.n]
      [] j.k = "string" -> [kind |-> "string", s |-> j.s]
      [] j.k = "bool"   -> [kind |-> "bool", b |-> j.b]
      [] j.k = "array"  -> [kind |-> "slice"]
      [] OTHER          -> [kind |-> "map"]

RECURSIVE UnmarshalJSON(_, _)

\* t.X = &Type{}; json.Unmarshal(raw, t.X)
UnmarshalNested(raw, asErr) ==
    LET r == UnmarshalJSON(raw[1], asErr)
    IN  [err |-> r.err, p |-> <<r.t>>]

\* json.Unmarshal(temp.ValuesRaw, &t.Values): null leaves the nil slice, an
\* array is decoded element by element up to the first element that fails,
\* anything else is an UnmarshalTypeError.
UnmarshalValues(raw, asErr) ==
    LET j == raw[1] IN
    CASE j.k = "null"  -> [err |-> FALSE, vs |-> << >>]
      [] j.k = "array" ->
            LET rs  == [i \in 1..Len(j.a) |-> UnmarshalJSON(j.a[i], asErr)]
                bad == {i \in 1..Len(j.a) : rs[i].err}
                n   == IF bad = {} THEN Len(j.a)
                       ELSE CHOOSE i \in bad : \A k \in bad : i <= k
            IN  [err |-> bad # {}, vs |-> [i \in 1..n |-> rs[i].t]]
      [] OTHER -> [err |-> TRUE, vs |-> << >>]

\* case "array" that decodes "key" into t.Key as well
UnmarshalArray_AlsoKey(t0, temp, asErr) ==
    LET k  == IF Len(temp.KeyRaw) > 0
              THEN UnmarshalNested(temp.KeyRaw, asErr)
              ELSE [err |-> FALSE, p |-> << >>]
        t1 == [t0 EXCEPT !.Key = k.p]
    IN  IF k.err THEN [err |-> TRUE, t |-> t1]
        ELSE IF Len(temp.ValueRaw) > 0
        THEN LET r == UnmarshalNested(temp.ValueRaw, asErr)
             IN  [err |-> r.err, t |-> [t1 EXCEPT !.Value = r.p]]
        ELSE [err |-> FALSE, t |-> t1]

\* case "array"
UnmarshalArray(t0, temp, asErr) ==
    IF Len(temp.ValueRaw) > 0
    THEN LET r == UnmarshalNested(temp.ValueRaw, asErr)
         IN  [err |-> r.err, t |-> [t0 EXCEPT !.Value = r.p]]
    ELSE [err |-> FALSE, t |-> t0]

\* case "dictionary"
UnmarshalDictionary(t0, temp, asErr) ==
    LET k  == IF Len(temp.KeyRaw) > 0
              THEN UnmarshalNested(temp.KeyRaw, asErr)
              ELSE [err |-> FALSE, p |-> << >>]
        t1 == [t0 EXCEPT !.Key = k.p]
    IN  IF k.err THEN [err |-> TRUE, t |-> t1]
        ELSE IF Len(temp.ValueRaw) > 0
        THEN LET v == UnmarshalNested(temp.ValueRaw, asErr)
             IN  [err |-> v.err, t |-> [t1 EXCEPT !.Value = v.p]]
        ELSE [err |-> FALSE, t |-> t1]

\* case "union"
UnmarshalUnion(t0, temp, asErr) ==
    IF Len(temp.ValuesRaw) > 0
    THEN LET r == UnmarshalValues(temp.ValuesRaw, asErr)
         IN  [err |-> r.err, t |-> [t0 EXCEPT !.Values = r.vs]]
    ELSE [err |-> FALSE, t |-> t0]

\* case "type"
UnmarshalWrapped(t0, temp, asErr) ==
    IF Len(temp.ValueRaw) > 0
    THEN LET r == UnmarshalNested(temp.ValueRaw, asErr)
         IN  [err |-> r.err, t |-> [t0 EXCEPT !.Value = r.p]]
    ELSE [err |-> FALSE, t |-> t0]

\* case "tuple"
UnmarshalTuple(t0, temp, asErr) ==
    IF Len(temp.ValuesRaw) > 0
    THEN LET r == UnmarshalValues(temp.ValuesRaw, asErr)
         IN  [err |-> r.err, t |-> [t0 EXCEPT !.Values = r.vs]]
    ELSE [err |-> FALSE, t |-> t0]

\* case "literal"
UnmarshalLiteral(t0, temp) ==
    IF Len(temp.ValueRaw) > 0
    THEN [err |-> FALSE,
          t |-> [t0 EXCEPT !.LiteralValue = UnmarshalInterface(temp.ValueRaw[1])]]
    ELSE [err |-> FALSE, t |-> t0]

\* case "builtin": the function, declared to return error, returns the
\* string "any".  asErr is whether that value is taken for a non-nil error.
UnmarshalBuiltin(t0, asErr) == [err |-> asErr, t |-> t0]

\* func (t *Type) UnmarshalJSON(data []byte) error, on a zero Type
UnmarshalJSON(j, asErr) ==
    LET sv == UnmarshalString(j) IN
    IF ~ sv.err
    THEN [err |-> FALSE, t |-> [ZeroType EXCEPT !.Name = sv.s]]
    ELSE
    LET temp == UnmarshalTemp(j) IN
    IF temp.err
    THEN [err |-> TRUE, t |-> ZeroType]
    ELSE
    LET t0 == [ZeroType EXCEPT !.Name = temp.Name,
                               !.ComplexType = temp.ComplexType,
                               !.FullFormat = temp.FullFormat,
                               !.BasicMember = DecodeBasicMember(temp)]
    IN  CASE t0.ComplexType = Str.array      -> UnmarshalArray(t0, temp, asErr)
          [] t0.ComplexType = Str.dictionary -> UnmarshalDictionary(t0, temp, asErr)
          [] t0.ComplexType = Str.union      -> UnmarshalUnion(t0, temp, asErr)
          [] t0.ComplexType = Str.literal    -> UnmarshalLiteral(t0, temp)
          [] t0.ComplexType = Str.type       -> UnmarshalWrapped(t0, temp, asErr)
          [] t0.ComplexType = Str.struct     -> [err |-> FALSE, t |-> t0]
          [] t0.ComplexType = Str.tuple      -> UnmarshalTuple(t0, temp, asErr)
          [] t0.ComplexType = Str.builtin    -> UnmarshalBuiltin(t0, asErr)
          [] OTHER                           -> [err |-> FALSE, t |-> t0]

(***************************************************************************)
(* The translator: generator.translateFactorioTypeToLuaLS.                 *)
(***************************************************************************)
\* func (t Type) IsSimple() bool
IsSimple(ty) == ty.Name # << >> /\ ty.ComplexType = << >>

\* func (t Type) IsComplex() bool
IsComplex(ty) == ty.ComplexType # << >>

\* func (t Type) IsBuiltinMarker() bool
IsBuiltinMarker(ty) ==
    /\ ty.ComplexType = Str.builtin
    /\ ty.Name = << >>
    /\ ty.Value = << >>
    /\ ty.Key = << >>
    /\ Len(ty.Values) = 0
    /\ ty.LiteralValue = NilValue

\* The switch with "ulong" missing from the numeric names.
TranslateSimple_NoUlong(name) ==
    CASE name = Str.string -> Str.string
      [] name \in {Str.int, Str.uint, Str.long,
                   Str.float, Str.double, Str.number} -> Str.number
      [] name = Str.boolean   -> Str.boolean
      [] name = Str.table     -> Str.table
      [] name = Str.nil       -> Str.nil
      [] name = Str.object    -> Str.any
      [] name = Str.LuaObject -> Str.LuaObject
      [] name = Str.void      -> Str.nil
      [] OTHER                -> name

\* The switch replaced by a lookup that depends on how many translations the
\* generator has made before.
TranslateSimple_Stateful(name) == IF calls > 1 THEN Str.any ELSE name

\* The switch on t.Name of a simple type.
TranslateSimple(name) ==
    CASE name = Str.string -> Str.string
      [] name \in {Str.int, Str.uint, Str.long, Str.ulong,
                   Str.float, Str.double, Str.number} -> Str.number
      [] name = Str.boolean   -> Str.boolean
      [] name = Str.table     -> Str.table
      [] name = Str.nil       -> Str.nil
      [] name = Str.object    -> Str.any
      [] name = Str.LuaObject -> Str.LuaObject
      [] name = Str.void      -> Str.nil
      [] OTHER                -> name

RECURSIVE translateFactorioTypeToLuaLS(_)

\* g.translateFactorioTypeToLuaLS(*p): dereferencing a nil p panics.
TranslatePointee(p) ==
    IF p = << >> THEN PANIC ELSE translateFactorioTypeToLuaLS(p[1])

\* case "array" with the "[]" suffix forgotten
TranslateArray_NoSuffix(ty) ==
    IF ty.Value # << >> THEN TranslatePointee(ty.Value) ELSE Str.table

\* case "array"
TranslateArray(ty) ==
    IF ty.Value # << >>
    THEN Cat(TranslatePointee(ty.Value), Str.brackets)
    ELSE Str.table

\* case "dictionary" with the two type parameters swapped
TranslateDictionary_Swapped(ty) ==
    IF ty.Key # << >> /\ ty.Value # << >>
    THEN LET keyType   == TranslatePointee(ty.Key)
             valueType == TranslatePointee(ty.Value)
         IN  Cat(Cat(Cat(Cat(Str.tableOpen, valueType), Str.commaSpace), keyType),
                 Str.tableClose)
    ELSE Str.table

\* case "dictionary" with || for && in the nil checks
TranslateDictionary_Or(ty) ==
    IF ty.Key # << >> \/ ty.Value # << >>
    THEN LET keyType   == TranslatePointee(ty.Key)
             valueType == TranslatePointee(ty.Value)
         IN  Cat(Cat(Cat(Cat(Str.tableOpen, keyType), Str.commaSpace), valueType),
                 Str.tableClose)
    ELSE Str.table

\* case "dictionary"
TranslateDictionary(ty) ==
    IF ty.Key # << >> /\ ty.Value # << >>
    THEN LET keyType   == TranslatePointee(ty.Key)
             valueType == TranslatePointee(ty.Value)
         IN  Cat(Cat(Cat(Cat(Str.tableOpen, keyType), Str.commaSpace), valueType),
                 Str.tableClose)
    ELSE Str.table

\* case "union" with the options appended in reverse
TranslateUnion_Reversed(ty) ==
    IF Len(ty.Values) > 0
    THEN LET n       == Len(ty.Values)
             options == [i \in 1..n |->
                            translateFactorioTypeToLuaLS(ty.Values[n + 1 - i])]
         IN  Join(options, Str.bar)
    ELSE Str.any

\* case "union" without the check for an empty list
TranslateUnion_NoFallback(ty) ==
    LET options == [i \in 1..Len(ty.Values) |->
                       translateFactorioTypeToLuaLS(ty.Values[i])]
    IN  Join(options, Str.bar)

\* case "union"
TranslateUnion(ty) ==
    IF Len(ty.Values) > 0
    THEN LET options == [i \in 1..Len(ty.Values) |->
                            translateFactorioTypeToLuaLS(ty.Values[i])]
         IN  Join(options, Str.bar)
    ELSE Str.any

\* The five strings.ReplaceAll calls on a string literal value, in the
\* order the code makes them.
EscapeString(val) ==
    LET e1 == ReplaceAll(val, <<QUOTE>>, <<BSLASH, QUOTE>>)
        e2 == ReplaceAll(e1, <<BSLASH>>, <<BSLASH, BSLASH>>)
        e3 == ReplaceAll(e2, <<LF>>, <<BSLASH, "n">>)
        e4 == ReplaceAll(e3, <<CR>>, <<BSLASH, "r">>)
        e5 == ReplaceAll(e4, <<TAB>>, <<BSLASH, "t">>)
    IN  e5

\* case "literal"
TranslateLiteral(ty) ==
    LET val == ty.LiteralValue IN
    CASE val.kind = "float64" -> FormatFloat(val.n)
      [] val.kind = "string"  -> <<QUOTE>> \o EscapeString(val.s) \o <<QUOTE>>
      [] val.kind = "bool"    -> IF val.b THEN Str.true ELSE Str.false
      [] OTHER                -> Str.any

\* case "type" without its nil check
TranslateWrapped_NoNilCheck(ty) == TranslatePointee(ty.Value)

\* case "type" preferring the wrapper's own name
TranslateWrapped_Named(ty) ==
    IF ty.Name # << >> THEN ty.Name
    ELSE IF ty.Value # << >> THEN TranslatePointee(ty.Value) ELSE Str.any

\* case "type"
TranslateWrapped(ty) ==
    IF ty.Value # << >> THEN TranslatePointee(ty.Value) ELSE Str.any

\* case "struct"
TranslateStruct(ty) == IF ty.Name # << >> THEN ty.Name ELSE Str.table

\* case "tuple" with the loop index as the label
TranslateTuple_ZeroBased(ty) ==
    IF Len(ty.Values) > 0
    THEN LET fields == [i \in 1..Len(ty.Values) |->
                           Cat(FormatInt(i - 1) \o Str.colonSpace,
                               translateFactorioTypeToLuaLS(ty.Values[i]))]
         IN  Cat(Cat(Str.braceOpen, Join(fields, Str.commaSpace)), Str.braceClose)
    ELSE Str.table

\* case "tuple"
TranslateTuple(ty) ==
    IF Len(ty.Values) > 0
    THEN LET fields == [i \in 1..Len(ty.Values) |->
                           Cat(FormatInt(i) \o Str.colonSpace,
                               translateFactorioTypeToLuaLS(ty.Values[i]))]
         IN  Cat(Cat(Str.braceOpen, Join(fields, Str.commaSpace)), Str.braceClose)
    ELSE Str.table

\* default without its fallback
TranslateDefault_NameOnly(ty) == ty.Name

\* default
TranslateDefault(ty) == IF ty.Name # << >> THEN ty.Name ELSE Str.any

\* func (g *Generator) translateFactorioTypeToLuaLS(t api.Type) string
translateFactorioTypeToLuaLS(ty) ==
    IF IsSimple(ty) THEN TranslateSimple(ty.Name)
    ELSE CASE ty.ComplexType = Str.array      -> TranslateArray(ty)
           [] ty.ComplexType = Str.dictionary -> TranslateDictionary(ty)
           [] ty.ComplexType = Str.union      -> TranslateUnion(ty)
           [] ty.ComplexType = Str.literal    -> TranslateLiteral(ty)
           [] ty.ComplexType = Str.type       -> TranslateWrapped(ty)
           [] ty.ComplexType = Str.struct     -> TranslateStruct(ty)
           [] ty.ComplexType = Str.tuple      -> TranslateTuple(ty)
           [] ty.ComplexType = Str.builtin    -> Str.any
           [] OTHER                           -> TranslateDefault(ty)

(***************************************************************************)
(* The annotation sites: what each generator function makes of the         *)
(* translated type and its entity's Nullable and Optional flags.           *)
(***************************************************************************)
\* if x.Nullable && !strings.Contains(luaLSType, "| nil") { luaLSType += " | nil" }
NullableSuffix(s, isNullable) ==
    IF isNullable /\ ~ Contains(s, Str.barNil) THEN Cat(s, Str.orNil) ELSE s

\* generatePropertyAnnotation: the type of a class property
PropertyType(s, isNullable, isOptional) == NullableSuffix(s, isNullable)

\* generateMethodAnnotation: the type of a parameter
ParameterType(s, isNullable, isOptional) == NullableSuffix(s, isNullable)

\* generateMethodAnnotation: the type of a return value
ReturnTypeType(s, isNullable, isOptional) == NullableSuffix(s, isNullable)

\* generateEventDataClass: the type of an event data field
EventFieldType(s, isNullable, isOptional) == NullableSuffix(s, isNullable)

\* generatePrototypeTypeClass: the type of a prototype property; an optional
\* property that is not nullable gets the suffix too.
PrototypePropertyType(s, isNullable, isOptional) ==
    LET s1 == NullableSuffix(s, isNullable)
    IN  NullableSuffix(s1, isOptional /\ ~ isNullable)

(***************************************************************************)
(* The documents the run may be given: the JSON values at a type position. *)
(***************************************************************************)
\* longest "values" list of a union or tuple drawn as an input
MaxValues == 3

Foo == <<"F","o","o">>

\* a name that ends with a space
FooSpace == <<"F","o","o"," ">>

\* absent, or present with a value of S
Opt(S) == {<< >>} \cup {<<x>> : x \in S}

\* bare type names: every primitive the translator knows, two names it does
\* not know, and the empty string
Names ==
    {Str.string, Str.int, Str.uint, Str.long, Str.ulong, Str.float, Str.double,
     Str.number, Str.boolean, Str.table, Str.nil, Str.void, Str.object,
     Str.LuaObject, Str.any, Foo, FooSpace, Str.empty}

\* the characters of string literal values
LitAlphabet == {"k", "n", QUOTE, BSLASH, LF, CR, TAB}

LitStrings == UNION {[1..n -> LitAlphabet] : n \in 0..MaxStrLen}

Literal(value) == JObject(<<JString(Str.literal)>>, << >>, value, << >>, << >>)

\* {"complex_type":"literal","value":s} for every string s
StringLiterals == {Literal(<<JString(s)>>) : s \in LitStrings}

\* literal objects with a number, a boolean, null, an array or no value
OtherLiterals ==
    {Literal(v) : v \in Opt({JNumber(0), JNumber(42), JNumber(1000000),
                             JBool(TRUE), JBool(FALSE), JNull, JArray(<< >>)})}

\* values that are no type node: a number, a boolean, an array, an object
\* whose name is a number, a union whose values is a string
Malformed ==
    {JNumber(5), JBool(TRUE), JArray(<< >>),
     JObject(<< >>, <<JNumber(5)>>, << >>, << >>, << >>),
     JObject(<<JString(Str.union)>>, << >>, << >>, << >>, <<JString(Str.string)>>)}

\* objects with no nested member: every discriminator (one of them unknown,
\* one empty, one absent), with and without a name
Discriminators ==
    {Str.array, Str.dictionary, Str.union, Str.literal, Str.type, Str.struct,
     Str.tuple, Str.builtin, Foo, Str.empty}

BareObjects ==
    {JObject(ct, nm, << >>, << >>, << >>) :
        ct \in Opt({JString(c) : c \in Discriminators}),
        nm \in Opt({JString(Foo), JString(Str.int), JString(Str.void),
                    JString(FooSpace)})}

\* objects with a name and no discriminator that have further members: a
\* full_format flag, a value, a values list
NamedObjects ==
    {[JObject(<< >>, <<JString(n)>>, << >>, << >>, << >>)
        EXCEPT !.full_format = <<JBool(b)>>] : n \in {Foo, Str.int}, b \in BOOLEAN}
    \cup {JObject(<< >>, <<JString(Foo)>>, <<JString(Str.string)>>, << >>, << >>),
          JObject(<< >>, <<JString(Foo)>>, << >>, << >>,
                  <<JArray(<<JString(Str.string)>>)>>)}

\* a description
Desc == <<"d">>

\* objects that carry a name and a description, one for every discriminator;
\* and unions that carry a member under the key BasicMemberRaw: an object
\* with a name and a description, null, a number
DescribedObjects ==
    {[JObject(<<JString(ct)>>, <<JString(Foo)>>, << >>, << >>, << >>)
        EXCEPT !.description = <<JString(Desc)>>] : ct \in Discriminators \ {Str.empty}}
    \cup {[JObject(<<JString(Str.union)>>, << >>, << >>, << >>, << >>)
             EXCEPT !.BasicMemberRaw = <<bm>>] :
             bm \in {[JObject(<< >>, <<JString(Foo)>>, << >>, << >>, << >>)
                        EXCEPT !.description = <<JString(Desc)>>],
                     JNull, JNumber(5)}}

\* objects that carry "value", "key" and "values" whatever their discriminator
OverfullObjects ==
    {JObject(ct, << >>, <<JString(Str.string)>>, <<JString(Str.int)>>,
             <<JArray(<<JString(Str.boolean)>>)>>) :
        ct \in Opt({JString(c) : c \in Discriminators})}

Leaves ==
    {JString(n) : n \in Names} \cup {JNull} \cup Malformed \cup BareObjects
    \cup NamedObjects \cup DescribedObjects \cup OverfullObjects
    \cup OtherLiterals
    \cup {JObject(<<JString(Str.union)>>, << >>, << >>, << >>, <<v>>) :
            v \in {JNull, JArray(<< >>)}}

\* the nodes nested inside the composites below
Kids ==
    {JString(n) : n \in {Str.string, Str.int, Str.nil, Str.void, Foo, Str.empty}}
    \cup {JNull, JNumber(5), Literal(<<JString(<<"k">>)>>),
          JObject(<< >>, << >>, << >>, << >>, << >>),
          JObject(<<JString(Str.builtin)>>, << >>, << >>, << >>, << >>),
          JObject(<<JString(Str.struct)>>, <<JString(Foo)>>, << >>, << >>, << >>)}

\* the options of the unions and the elements of the tuples
Options == {JString(n) : n \in {Str.string, Str.boolean, Str.nil}}

ValueLists == UNION {[1..n -> Options] : n \in 1..MaxValues}

Composites ==
    {JObject(<<JString(Str.array)>>, << >>, <<c>>, << >>, << >>) : c \in Kids}
    \cup {JObject(<<JString(Str.type)>>, nm, <<c>>, << >>, << >>) :
            nm \in Opt({JString(Foo)}), c \in Kids}
    \cup {JObject(<<JString(Str.dictionary)>>, << >>, v, k, << >>) :
            v \in Opt(Kids),
            k \in Opt({JString(Str.string), JString(Str.int), JNumber(5)})}
    \cup {JObject(<<JString(ct)>>, << >>, << >>, << >>, <<JArray(vs)>>) :
            ct \in {Str.union, Str.tuple}, vs \in ValueLists}
    \cup {JObject(<<JString(Str.union)>>, << >>, << >>, << >>,
                  <<JArray(<<JString(Str.string), JNumber(5)>>)>>)}

\* one more level around node c: as the element of an array, the inner type
\* of a wrapper, the value of a dictionary, an option of a union before nil,
\* the first element of a tuple
Wrap(c) ==
    { JObject(<<JString(Str.array)>>, << >>, <<c>>, << >>, << >>),
      JObject(<<JString(Str.type)>>, << >>, <<c>>, << >>, << >>),
      JObject(<<JString(Str.dictionary)>>, << >>, <<c>>, <<JString(Str.string)>>, << >>),
      JObject(<<JString(Str.union)>>, << >>, << >>, << >>,
              <<JArray(<<c, JString(Str.nil)>>)>>),
      JObject(<<JString(Str.tuple)>>, << >>, << >>, << >>,
              <<JArray(<<c, JString(Str.int)>>)>>) }

RECURSIVE Wrapped(_)
Wrapped(n) ==
    IF n = 0 THEN Leaves \cup Composites
    ELSE LET inner == Wrapped(n - 1)
         IN  inner \cup UNION {Wrap(c) : c \in inner}

Inputs == Wrapped(MaxWrap) \cup StringLiterals

(***************************************************************************)
(* The run: main loads the document (api.DownloadAndParseAPI), which       *)
(* decodes every Type in it, and stops on an error; the generator then     *)
(* renders the type at the site it occurs at.                              *)
(***************************************************************************)
\* Whether decoding j reaches case "builtin": some node of j, at a
\* position the decoder reads, has that discriminator.
RECURSIVE HasBuiltinNode(_)
HasBuiltinNode(j) ==
    /\ j.k = "object"
    /\ \/ StringMember(j, "complex_type") = Str.builtin
       \/ \E key \in {"value", "key"} :
             j[key] # << >> /\ HasBuiltinNode(j[key][1])
       \/ /\ j.values # << >>
          /\ j.values[1].k = "array"
          /\ \E i \in 1..Len(j.values[1].a) : HasBuiltinNode(j.values[1].a[i])

Init ==
    /\ data \in Inputs
    /\ pc = "loaded"
    /\ t = ZeroType
    /\ err = FALSE
    /\ builtinErr = FALSE
    /\ site = "none"
    /\ nullable = FALSE
    /\ optional = FALSE
    /\ base = << >>
    /\ luaLSType = << >>
    /\ pending = << >>
    /\ calls = 0
    /\ returned = << >>
    /\ served = [runtime |-> [kind |-> "ok", api |-> ZeroAPI],
                 prototype |-> [kind |-> "ok", api |-> ZeroAPI]]
    /\ mpc = "idle"
    /\ runtimeAPI = ZeroAPI
    /\ prototypeAPI = ZeroAPI
    /\ definitions = << >>
    /\ files = {}

\* api.DownloadAndParseAPI: json.Unmarshal(body, v) runs Type.UnmarshalJSON on
\* the type; main ends the run with log.Fatalf when it returns an error.
DownloadAndParseAPI ==
    /\ pc = "loaded"
    /\ \E asErr \in (IF HasBuiltinNode(data) THEN BOOLEAN ELSE {FALSE}) :
          LET r == UnmarshalJSON(data, asErr)
          IN  /\ t' = r.t
              /\ err' = r.err
              /\ builtinErr' = asErr
              /\ pc' = IF r.err THEN "failed" ELSE "decoded"
    /\ UNCHANGED <<data, site, nullable, optional, base, luaLSType, pending, calls, returned>>
    /\ UNCHANGED mainVars

\* generateGlobalObject: the translated type, no suffix
generateGlobalObject ==
    /\ pc = "decoded"
    /\ pc' = "generated"
    /\ site' = "global"
    /\ base' = translateFactorioTypeToLuaLS(t)
    /\ luaLSType' = base'
    /\ UNCHANGED <<data, t, err, builtinErr, nullable, optional, pending, calls, returned>>
    /\ UNCHANGED mainVars

\* generatePropertyAnnotation
generatePropertyAnnotation ==
    /\ pc = "decoded"
    /\ pc' = "generated"
    /\ site' = "property"
    /\ \E n \in BOOLEAN, o \in BOOLEAN :
          /\ nullable' = n
          /\ optional' = o
          /\ base' = translateFactorioTypeToLuaLS(t)
          /\ luaLSType' = PropertyType(base', n, o)
    /\ UNCHANGED <<data, t, err, builtinErr, pending, calls, returned>>
    /\ UNCHANGED mainVars

\* generateMethodAnnotation, a parameter
generateMethodParameter ==
    /\ pc = "decoded"
    /\ pc' = "generated"
    /\ site' = "parameter"
    /\ \E n \in BOOLEAN, o \in BOOLEAN :
          /\ nullable' = n
          /\ optional' = o
          /\ base' = translateFactorioTypeToLuaLS(t)
          /\ luaLSType' = ParameterType(base', n, o)
    /\ UNCHANGED <<data, t, err, builtinErr, pending, calls, returned>>
    /\ UNCHANGED mainVars

\* generateMethodAnnotation, a return value
generateMethodReturn ==
    /\ pc = "decoded"
    /\ pc' = "generated"
    /\ site' = "return"
    /\ \E n \in BOOLEAN, o \in BOOLEAN :
          /\ nullable' = n
          /\ optional' = o
          /\ base' = translateFactorioTypeToLuaLS(t)
          /\ luaLSType' = ReturnTypeType(base', n, o)
    /\ UNCHANGED <<data, t, err, builtinErr, pending, calls, returned>>
    /\ UNCHANGED mainVars

\* generateEventDataClass, a data field
generateEventDataClass ==
    /\ pc = "decoded"
    /\ pc' = "generated"
    /\ site' = "event"
    /\ \E n \in BOOLEAN, o \in BOOLEAN :
          /\ nullable' = n
          /\ optional' = o
          /\ base' = translateFactorioTypeToLuaLS(t)
          /\ luaLSType' = EventFieldType(base', n, o)
    /\ UNCHANGED <<data, t, err, builtinErr, pending, calls, returned>>
    /\ UNCHANGED mainVars

\* generatePrototypeTypeClass, a property
generatePrototypeTypeClass ==
    /\ pc = "decoded"
    /\ pc' = "generated"
    /\ site' = "prototype"
    /\ \E n \in BOOLEAN, o \in BOOLEAN :
          /\ nullable' = n
          /\ optional' = o
          /\ base' = translateFactorioTypeToLuaLS(t)
          /\ luaLSType' = PrototypePropertyType(base', n, o)
    /\ UNCHANGED <<data, t, err, builtinErr, pending, calls, returned>>
    /\ UNCHANGED mainVars

Next ==
    \/ DownloadAndParseAPI
    \/ generateGlobalObject
    \/ generatePropertyAnnotation
    \/ generateMethodParameter
    \/ generateMethodReturn
    \/ generateEventDataClass
    \/ generatePrototypeTypeClass

Spec == Init /\ [][Next]_vars

(***************************************************************************)
(* The translator call by call: a generator function calls                 *)
(* translateFactorioTypeToLuaLS on the decoded type, and every call makes  *)
(* its recursive calls before it returns.                                  *)
(***************************************************************************)
\* most calls of one translation the model follows
MaxCalls == 12

\* The recursive calls with case "type" calling itself on t, not on *t.Value.
Callees_SameNode(ty) ==
    IF IsSimple(ty) THEN << >>
    ELSE CASE ty.ComplexType = Str.array ->
                IF ty.Value # << >> THEN <<ty.Value[1]>> ELSE << >>
           [] ty.ComplexType = Str.dictionary ->
                IF ty.Key # << >> /\ ty.Value # << >>
                THEN <<ty.Key[1], ty.Value[1]>> ELSE << >>
           [] ty.ComplexType = Str.union -> ty.Values
           [] ty.ComplexType = Str.type ->
                IF ty.Value # << >> THEN <<ty>> ELSE << >>
           [] ty.ComplexType = Str.tuple -> ty.Values
           [] OTHER -> << >>

\* The Types one call of translateFactorioTypeToLuaLS on ty calls itself on,
\* in the order of the calls.
Callees(ty) ==
    IF IsSimple(ty) THEN << >>
    ELSE CASE ty.ComplexType = Str.array ->
                IF ty.Value # << >> THEN <<ty.Value[1]>> ELSE << >>
           [] ty.ComplexType = Str.dictionary ->
                IF ty.Key # << >> /\ ty.Value # << >>
                THEN <<ty.Key[1], ty.Value[1]>> ELSE << >>
           [] ty.ComplexType = Str.union -> ty.Values
           [] ty.ComplexType = Str.type ->
                IF ty.Value # << >> THEN <<ty.Value[1]>> ELSE << >>
           [] ty.ComplexType = Str.tuple -> ty.Values
           [] OTHER -> << >>

\* A generator function calls g.translateFactorioTypeToLuaLS(x.Type).
Invoke ==
    /\ pc = "decoded"
    /\ pc' = "translating"
    /\ pending' = <<t>>
    /\ calls' = 0
    /\ returned' = << >>
    /\ UNCHANGED <<data, t, err, builtinErr, site, nullable, optional, base, luaLSType>>
    /\ UNCHANGED mainVars

\* One call of translateFactorioTypeToLuaLS, on the first pending Type: the
\* calls it makes itself come before the calls that were pending, and it
\* returns its string.  The outermost call's string is the site's base.
Call ==
    /\ pc = "translating"
    /\ pending # << >>
    /\ calls < MaxCalls
    /\ LET ty == Head(pending)
       IN  /\ pending' = Callees(ty) \o Tail(pending)
           /\ calls' = calls + 1
           /\ returned' = Append(returned,
                                 [ty |-> ty, s |-> translateFactorioTypeToLuaLS(ty)])
    /\ pc' = IF pending' = << >> THEN "translated" ELSE "translating"
    /\ base' = IF pending' = << >> THEN returned'[1].s ELSE base
    /\ UNCHANGED <<data, t, err, builtinErr, site, nullable, optional, luaLSType>>
    /\ UNCHANGED mainVars

NextTranslate ==
    \/ DownloadAndParseAPI
    \/ Invoke
    \/ Call

SpecTranslate == Init /\ [][NextTranslate]_vars

(***************************************************************************)
(* The run as a whole: main downloads and parses the two documents         *)
(* (api.DownloadAndParseAPI), generates the definitions                    *)
(* (Generator.GenerateDefinitions) and writes them to files.  A file's     *)
(* content is the sequence of its annotation lines, each by its tag, the   *)
(* name it declares and its type string; descriptions and blank lines are  *)
(* left out.                                                               *)
(***************************************************************************)
\* one line of a definition file
Line(tag, name, type) == [tag |-> tag, name |-> name, type |-> type]

\* concatenation of a sequence of sequences
RECURSIVE Flatten(_)
Flatten(ss) == IF ss = << >> THEN << >> ELSE Head(ss) \o Flatten(Tail(ss))

\* the sequences that list every element of the finite set S once: the
\* orders a range over a Go map with the keys S may take
RECURSIVE Orders(_)
Orders(S) ==
    IF S = {} THEN {<< >>}
    ELSE UNION {{<<x>> \o o : o \in Orders(S \ {x})} : x \in S}

\* the type generateDefine infers from a define value
DefineValueType(value) ==
    CASE value.kind = "float64" -> Str.number
      [] value.kind = "string"  -> Str.string
      [] value.kind = "bool"    -> Str.boolean
      [] OTHER                  -> Str.any

\* generateDefine with the children written before their parent
RECURSIVE generateDefine_ChildrenFirst(_, _)
generateDefine_ChildrenFirst(define, prefix) ==
    LET fullName == prefix \o define.Name
    IN  Flatten([i \in 1..Len(define.Subkeys) |->
                    generateDefine_ChildrenFirst(define.Subkeys[i], fullName \o <<".">>)])
        \o <<Line("class", fullName, << >>)>>
        \o [i \in 1..Len(define.Values) |->
              Line("field", define.Values[i].Name,
                   DefineValueType(define.Values[i].Value))]

\* func (g *Generator) generateDefine(sb, define, prefix)
RECURSIVE generateDefine(_, _)
generateDefine(define, prefix) ==
    LET fullName == prefix \o define.Name
    IN  <<Line("class", fullName, << >>)>>
        \o [i \in 1..Len(define.Values) |->
              Line("field", define.Values[i].Name,
                   DefineValueType(define.Values[i].Value))]
        \o Flatten([i \in 1..Len(define.Subkeys) |->
                      generateDefine(define.Subkeys[i], fullName \o <<".">>)])

\* func (g *Generator) generateConcept(concept)
generateConcept(concept) ==
    IF IsComplex(concept.Type) \/ IsSimple(concept.Type)
    THEN <<Line("alias", concept.Name, translateFactorioTypeToLuaLS(concept.Type))>>
    ELSE IF concept.Type.Name # << >>
    THEN <<Line("alias", concept.Name, concept.Type.Name)>>
    ELSE <<Line("comment", concept.Name, << >>)>>

\* func (g *Generator) generateMethodAnnotation(name, method)
generateMethodAnnotation(method) ==
    <<Line("method", method.Name, << >>)>>
    \o [i \in 1..Len(method.Parameters) |->
          LET param == method.Parameters[i]
          IN  Line("param",
                   param.Name \o (IF param.Optional THEN <<" ","[","o","p","t","]">>
                                  ELSE << >>),
                   ParameterType(translateFactorioTypeToLuaLS(param.Type),
                                 param.Nullable, param.Optional))]
    \o [i \in 1..Len(method.ReturnTypes) |->
          LET ret == method.ReturnTypes[i]
          IN  Line("return", << >>,
                   ReturnTypeType(translateFactorioTypeToLuaLS(ret.Type),
                                  ret.Nullable, ret.Optional))]

\* func (g *Generator) generateClass(class)
generateClass(class) ==
    <<Line("class", class.Name, << >>)>>
    \o (IF class.Parent # << >> THEN <<Line("field", <<"_","_","p","a","r","e","n","t">>,
                                             class.Parent)>>
        ELSE << >>)
    \o [i \in 1..Len(class.Properties) |->
          LET prop == class.Properties[i]
          IN  Line("field", prop.Name,
                   PropertyType(translateFactorioTypeToLuaLS(prop.Type),
                                prop.Nullable, prop.Optional))]
    \o Flatten([i \in 1..Len(class.Methods) |->
                  generateMethodAnnotation(class.Methods[i])])

\* generateGlobalObject, as a line
GlobalObjectLine(global) ==
    <<Line("type", global.Name, translateFactorioTypeToLuaLS(global.Type))>>

EventDataPrefix == <<"E","v","e","n","t","D","a","t","a",".">>

\* generateEventDataClass, as lines
EventDataClassLines(event) ==
    <<Line("class", EventDataPrefix \o event.Name, << >>)>>
    \o [i \in 1..Len(event.Data) |->
          LET param == event.Data[i]
          IN  Line("field", param.Name,
                   EventFieldType(translateFactorioTypeToLuaLS(param.Type),
                                  param.Nullable, param.Optional))]

\* the runtime half of GenerateDefinitions: the content of "runtime.lua"
GenerateRuntime(api) ==
    Flatten([i \in 1..Len(api.Defines) |-> generateDefine(api.Defines[i], << >>)])
    \o Flatten([i \in 1..Len(api.Concepts) |-> generateConcept(api.Concepts[i])])
    \o Flatten([i \in 1..Len(api.Classes) |-> generateClass(api.Classes[i])])
    \o Flatten([i \in 1..Len(api.GlobalObjects) |->
                  GlobalObjectLine(api.GlobalObjects[i])])
    \o <<Line("class", <<"E","v","e","n","t","D","a","t","a">>, << >>)>>
    \o Flatten([i \in 1..Len(api.Events) |-> EventDataClassLines(api.Events[i])])

\* strings.Title of a one-word name in lower-case letters
Title(s) ==
    LET lower == <<"i", "r", "t">>
        upper == <<"I", "R", "T">>
    IN  IF s # << >> /\ \E k \in 1..Len(lower) : lower[k] = s[1]
        THEN <<upper[CHOOSE k \in 1..Len(lower) : lower[k] = s[1]]>> \o Tail(s)
        ELSE s

PrototypeSuffix == <<"P","r","o","t","o","t","y","p","e">>

DataRawPrefix == <<"d","a","t","a",".","r","a","w",".">>

\* prototypesByTypeName[typeName]: the prototypes of that typename by name,
\* a later one of the same name replacing an earlier one
RECURSIVE PrototypesByName(_, _)
PrototypesByName(prototypes, typeName) ==
    IF prototypes = << >> THEN << >>
    ELSE LET last == prototypes[Len(prototypes)]
             rest == PrototypesByName(SubSeq(prototypes, 1, Len(prototypes) - 1),
                                      typeName)
         IN  IF last.TypeName # typeName THEN rest
             ELSE SelectSeq(rest, LAMBDA q : q.Name # last.Name) \o <<last>>

\* allProperties after the prototypes were ranged over in the order given:
\* for each property name, the property encountered last
RECURSIVE AllProperties(_)
AllProperties(props) ==
    IF props = << >> THEN << >>
    ELSE LET last == props[Len(props)]
             rest == AllProperties(SubSeq(props, 1, Len(props) - 1))
         IN  SelectSeq(rest, LAMBDA q : q.Name # last.Name) \o <<last>>

\* The strings generatePrototypeTypeClass may return for one typename: the
\* prototypes map is ranged over in any order, and so is allProperties.
generatePrototypeTypeClass_Lines(className, prototypes) ==
    LET protoOrders == Orders({prototypes[i] : i \in 1..Len(prototypes)})
        merged(o) == AllProperties(Flatten([i \in 1..Len(o) |-> o[i].Properties]))
        fields(ps) == [i \in 1..Len(ps) |->
                         Line("field", ps[i].Name,
                              PrototypePropertyType(
                                  translateFactorioTypeToLuaLS(ps[i].Type),
                                  ps[i].Nullable, ps[i].Optional))]
    IN  UNION {{<<Line("class", className, << >>)>> \o fields(fo) :
                    fo \in Orders({merged(o)[i] : i \in 1..Len(merged(o))})} :
               o \in protoOrders}

\* The contents the prototype half of GenerateDefinitions may give
\* "prototype.lua": prototypesByTypeName is ranged over in any order.
RECURSIVE PrototypeClasses(_, _)
PrototypeClasses(prototypes, typeOrder) ==
    IF typeOrder = << >> THEN {<< >>}
    ELSE LET typeName == Head(typeOrder)
             className == Title(typeName) \o PrototypeSuffix
         IN  {c \o <<Line("type", DataRawPrefix \o typeName, className)>> \o rest :
                 c \in generatePrototypeTypeClass_Lines(
                           className, PrototypesByName(prototypes, typeName)),
                 rest \in PrototypeClasses(prototypes, Tail(typeOrder))}

GeneratePrototype(api) ==
    LET head == Flatten([i \in 1..Len(api.Defines) |->
                           generateDefine(api.Defines[i], << >>)])
                \o Flatten([i \in 1..Len(api.Concepts) |->
                              generateConcept(api.Concepts[i])])
        typeNames == {api.Prototypes[i].TypeName : i \in 1..Len(api.Prototypes)}
    IN  IF api.Prototypes = << >> THEN {head}
        ELSE UNION {{head \o <<Line("class", PrototypeSuffix, << >>)>> \o cs :
                        cs \in PrototypeClasses(api.Prototypes, o)} :
                    o \in Orders(typeNames)}

\* The maps GenerateDefinitions(runtimeAPI, prototypeAPI) may return.
GenerateDefinitionsResults(rt, proto) ==
    {[runtime |-> GenerateRuntime(rt), prototype |-> p] : p \in GeneratePrototype(proto)}

(***************************************************************************)
(* The documents the two URLs may serve.                                   *)
(***************************************************************************)
\* the api.Type json.Unmarshal stores for type node j
DecodeType(j) == UnmarshalJSON(j, FALSE).t

IntOrNil ==
    JObject(<<JString(Str.union)>>, << >>, << >>, << >>,
            <<JArray(<<JString(Str.int), JString(Str.nil)>>)>>)

DefineValue(name, value) == [Name |-> name, Value |-> value]

Define(name, values, subkeys) ==
    [Name |-> name, Values |-> values, Subkeys |-> subkeys]

Concept(name, type) == [Name |-> name, Type |-> type]

Property(name, type, isOptional, isNullable) ==
    [Name |-> name, Type |-> type, Optional |-> isOptional, Nullable |-> isNullable]

Parameter(name, type, isOptional, isNullable) ==
    [Name |-> name, Type |-> type, Optional |-> isOptional, Nullable |-> isNullable]

ReturnType(type, isOptional, isNullable) ==
    [Type |-> type, Optional |-> isOptional, Nullable |-> isNullable]

Method(name, parameters, returnTypes) ==
    [Name |-> name, Parameters |-> parameters, ReturnTypes |-> returnTypes]

Class(name, parent, properties, methods) ==
    [Name |-> name, Parent |-> parent, Properties |-> properties, Methods |-> methods]

GlobalObject(name, type) == [Name |-> name, Type |-> type]

Event(name, data_) == [Name |-> name, Data |-> data_]

Prototype(name, typeName, properties) ==
    [Name |-> name, TypeName |-> typeName, Properties |-> properties]

\* defines: one nested three deep with values of every kind, one empty
DefineLists ==
    LET c == Define(<<"c">>, <<DefineValue(<<"z">>, [kind |-> "bool", b |-> TRUE])>>, << >>)
        b == Define(<<"b">>, << >>, <<c>>)
        a == Define(<<"a">>,
                    <<DefineValue(<<"x">>, [kind |-> "float64", n |-> 1]),
                      DefineValue(<<"y">>, [kind |-> "string", s |-> <<"k">>]),
                      DefineValue(<<"w">>, NilValue)>>,
                    <<b, Define(<<"d">>, << >>, << >>)>>)
        e == Define(<<"e">>, << >>, << >>)
    IN  {<< >>, <<a>>, <<a, e>>, <<e, a>>}

\* concepts: one with a union type, one with a bare name, one whose type has
\* neither a name nor a discriminator (no "type" member in the document)
ConceptLists ==
    LET u == Concept(<<"U">>, DecodeType(IntOrNil))
        n == Concept(<<"N">>, DecodeType(JString(Str.uint)))
        z == Concept(<<"Z">>, ZeroType)
    IN  {<< >>, <<u, n>>, <<n, z, u>>}

\* classes: one with a property and a method, one with a parent
ClassLists ==
    LET k == Class(<<"K">>, << >>,
                   <<Property(<<"p">>, DecodeType(JString(Str.string)), FALSE, TRUE)>>,
                   <<Method(<<"m">>,
                            <<Parameter(<<"q">>, DecodeType(JString(Str.int)), TRUE, FALSE)>>,
                            <<ReturnType(DecodeType(JString(Str.boolean)), FALSE, TRUE)>>)>>)
        l == Class(<<"L">>, <<"K">>, << >>, << >>)
    IN  {<< >>, <<k>>, <<k, l>>}

GlobalObjectLists ==
    {<< >>, <<GlobalObject(<<"g">>, DecodeType(JString(<<"K">>)))>>}

EventLists ==
    LET on == Event(<<"o","n">>,
                    <<Parameter(<<"t">>, DecodeType(JString(Str.uint)), FALSE, FALSE)>>)
        off == Event(<<"o","f","f">>, << >>)
    IN  {<< >>, <<on>>, <<off, on>>}

\* prototypes: two of typename "item" that declare property x differently,
\* one of typename "recipe"
PrototypeLists ==
    LET ia == Prototype(<<"a">>, <<"i","t","e","m">>,
                        <<Property(<<"x">>, DecodeType(JString(Str.int)), FALSE, FALSE),
                          Property(<<"y">>, DecodeType(JString(Str.string)), FALSE, FALSE)>>)
        ib == Prototype(<<"b">>, <<"i","t","e","m">>,
                        <<Property(<<"x">>, DecodeType(JString(Str.string)), TRUE, FALSE)>>)
        r  == Prototype(<<"r">>, <<"r","e","c","i","p","e">>,
                        <<Property(<<"z">>, DecodeType(JString(Str.boolean)), FALSE, FALSE)>>)
    IN  {<< >>, <<ia>>, <<ia, ib>>, <<r, ia>>, <<ia, r, ib>>}

\* what a URL may serve: no answer, a status other than 200, a body that
\* cannot be read, a body that is no JSON document of the API's shape, or a
\* document, given as the api.API json.Unmarshal makes of it
Failures == {"network", "status", "body", "json"}

Response(kind, api) == [kind |-> kind, api |-> api]

RuntimeResponses ==
    {Response(k, ZeroAPI) : k \in Failures}
    \cup {Response("ok", [ZeroAPI EXCEPT !.Defines = d, !.Concepts = c, !.Classes = k,
                                         !.GlobalObjects = g, !.Events = e]) :
            d \in DefineLists, c \in ConceptLists, k \in ClassLists,
            g \in GlobalObjectLists, e \in EventLists}

PrototypeResponses ==
    {Response(k, ZeroAPI) : k \in Failures}
    \cup {Response("ok", [ZeroAPI EXCEPT !.Defines = d, !.Concepts = c, !.Prototypes = p]) :
            d \in {<< >>, <<Define(<<"e">>, << >>, << >>)>>},
            c \in {<< >>, <<Concept(<<"Z">>, ZeroType)>>},
            p \in PrototypeLists}

\* definitions before GenerateDefinitions returned: the nil map
NoDefinitions == << >>

FileNames == {"runtime.lua", "prototype.lua"}

\* The start of main.
InitRun ==
    /\ served \in [runtime : RuntimeResponses, prototype : PrototypeResponses]
    /\ mpc = "start"
    /\ runtimeAPI = ZeroAPI
    /\ prototypeAPI = ZeroAPI
    /\ definitions = NoDefinitions
    /\ files = {}
    /\ data = JNull
    /\ pc = "idle"
    /\ t = ZeroType
    /\ err = FALSE
    /\ builtinErr = FALSE
    /\ site = "none"
    /\ nullable = FALSE
    /\ optional = FALSE
    /\ base = << >>
    /\ luaLSType = << >>
    /\ pending = << >>
    /\ calls = 0
    /\ returned = << >>

\* main: runtimeAPI, err := api.DownloadAndParseAPI(runtimeAPIURL);
\* log.Fatalf on an error
LoadRuntimeAPI ==
    /\ mpc = "start"
    /\ IF served.runtime.kind = "ok"
       THEN /\ runtimeAPI' = served.runtime.api
            /\ mpc' = "runtimeLoaded"
       ELSE /\ runtimeAPI' = runtimeAPI
            /\ mpc' = "fatal"
    /\ UNCHANGED <<served, prototypeAPI, definitions, files>>
    /\ UNCHANGED typeVars

\* the load of the prototype document that goes on after an error
LoadPrototypeAPI_Continue ==
    /\ mpc = "runtimeLoaded"
    /\ prototypeAPI' = served.prototype.api
    /\ mpc' = "prototypeLoaded"
    /\ UNCHANGED <<served, runtimeAPI, definitions, files>>
    /\ UNCHANGED typeVars

\* main: prototypeAPI, err := api.DownloadAndParseAPI(prototypeAPIURL);
\* log.Fatalf on an error
LoadPrototypeAPI ==
    /\ mpc = "runtimeLoaded"
    /\ IF served.prototype.kind = "ok"
       THEN /\ prototypeAPI' = served.prototype.api
            /\ mpc' = "prototypeLoaded"
       ELSE /\ prototypeAPI' = prototypeAPI
            /\ mpc' = "fatal"
    /\ UNCHANGED <<served, runtimeAPI, definitions, files>>
    /\ UNCHANGED typeVars

\* a generation that sorts the prototypes of the document it was given by
\* typename before it groups them
GenerateDefinitions_Sorting ==
    /\ mpc = "prototypeLoaded"
    /\ \E r \in GenerateDefinitionsResults(runtimeAPI, prototypeAPI) :
          definitions' = ("runtime.lua" :> r.runtime) @@ ("prototype.lua" :> r.prototype)
    /\ prototypeAPI' =
          [prototypeAPI EXCEPT !.Prototypes =
              SelectSeq(@, LAMBDA p : p.TypeName[1] = "i")
              \o SelectSeq(@, LAMBDA p : p.TypeName[1] # "i")]
    /\ mpc' = "generated"
    /\ UNCHANGED <<served, runtimeAPI, files>>
    /\ UNCHANGED typeVars

\* main: definitions, err := gen.GenerateDefinitions(runtimeAPI, prototypeAPI);
\* the error is always nil
GenerateDefinitions ==
    /\ mpc = "prototypeLoaded"
    /\ \E r \in GenerateDefinitionsResults(runtimeAPI, prototypeAPI) :
          definitions' = ("runtime.lua" :> r.runtime) @@ ("prototype.lua" :> r.prototype)
    /\ mpc' = "generated"
    /\ UNCHANGED <<served, runtimeAPI, prototypeAPI, files>>
    /\ UNCHANGED typeVars

\* main: os.MkdirAll(outputDir, 0755); log.Fatalf on an error
MkdirAll ==
    /\ mpc = "generated"
    /\ \E ok \in BOOLEAN : mpc' = IF ok THEN "dirReady" ELSE "fatal"
    /\ UNCHANGED <<served, runtimeAPI, prototypeAPI, definitions, files>>
    /\ UNCHANGED typeVars

\* main: one turn of the loop over definitions, in the map's order:
\* os.WriteFile(filePath, []byte(content), 0644); log.Fatalf on an error
WriteFile ==
    /\ mpc = "dirReady"
    /\ \E filename \in DOMAIN definitions \ {f.name : f \in files}, ok \in BOOLEAN :
          IF ok
          THEN /\ files' = files \cup {[name |-> filename, content |-> definitions[filename]]}
               /\ mpc' = IF {f.name : f \in files'} = DOMAIN definitions
                         THEN "done" ELSE "dirReady"
          ELSE /\ files' = files
               /\ mpc' = "fatal"
    /\ UNCHANGED <<served, runtimeAPI, prototypeAPI, definitions>>
    /\ UNCHANGED typeVars

NextRun ==
    \/ LoadRuntimeAPI
    \/ LoadPrototypeAPI
    \/ GenerateDefinitions
    \/ MkdirAll
    \/ WriteFile

SpecRun == InitRun /\ [][NextRun]_vars


(***************************************************************************)
(* The target grammar, as the claims read an annotation.                   *)
(***************************************************************************)
\* Lua's reading of a double-quoted string literal: rest is what follows the
\* opening quote, acc the characters read so far.  The literal ends at the
\* first quote that no backslash escapes, which must be its last character;
\* a backslash escapes the quote and itself and names newline, carriage
\* return and tab by n, r and t; a raw line break ends the literal unfinished.
RECURSIVE LuaReadBody(_, _)
LuaReadBody(rest, acc) ==
    IF rest = << >> THEN [ok |-> FALSE, s |-> acc]
    ELSE IF Head(rest) = QUOTE THEN [ok |-> Len(rest) = 1, s |-> acc]
    ELSE IF Head(rest) \in {LF, CR} THEN [ok |-> FALSE, s |-> acc]
    ELSE IF Head(rest) = BSLASH
         THEN IF Len(rest) < 2 THEN [ok |-> FALSE, s |-> acc]
              ELSE LET c == rest[2]
                       r == SubSeq(rest, 3, Len(rest))
                   IN  CASE c = QUOTE  -> LuaReadBody(r, Append(acc, QUOTE))
                         [] c = BSLASH -> LuaReadBody(r, Append(acc, BSLASH))
                         [] c = "n"    -> LuaReadBody(r, Append(acc, LF))
                         [] c = "r"    -> LuaReadBody(r, Append(acc, CR))
                         [] c = "t"    -> LuaReadBody(r, Append(acc, TAB))
                         [] c = LF     -> LuaReadBody(r, Append(acc, LF))
                         [] OTHER      -> [ok |-> FALSE, s |-> acc]
    ELSE LuaReadBody(Tail(rest), Append(acc, Head(rest)))

LuaReadString(lit) ==
    IF lit # << >> /\ Head(lit) = QUOTE
    THEN LuaReadBody(Tail(lit), << >>)
    ELSE [ok |-> FALSE, s |-> << >>]

\* The alternatives of an annotation at its top level: rest is split at each
\* " | " that lies outside table<...>, {...} and string literals.
RECURSIVE SplitTop(_, _, _, _)
SplitTop(rest, depth, inString, cur) ==
    IF rest = << >> THEN <<cur>>
    ELSE IF inString
         THEN IF Head(rest) = BSLASH /\ Len(rest) >= 2
              THEN SplitTop(SubSeq(rest, 3, Len(rest)), depth, TRUE,
                            cur \o SubSeq(rest, 1, 2))
              ELSE SplitTop(Tail(rest), depth, Head(rest) # QUOTE,
                            Append(cur, Head(rest)))
    ELSE IF depth = 0 /\ Len(rest) >= 3 /\ SubSeq(rest, 1, 3) = Str.bar
         THEN <<cur>> \o SplitTop(SubSeq(rest, 4, Len(rest)), 0, FALSE, << >>)
    ELSE LET c == Head(rest)
             d == IF c \in {"<", "{"} THEN depth + 1
                  ELSE IF c \in {">", "}"} /\ depth > 0 THEN depth - 1
                  ELSE depth
         IN  SplitTop(Tail(rest), d, c = QUOTE, Append(cur, c))

Alternatives(s) == SplitTop(s, 0, FALSE, << >>)

\* how many top-level alternatives of s are nil
NilCount(s) ==
    Cardinality({i \in 1..Len(Alternatives(s)) : Alternatives(s)[i] = Str.nil})

\* s denotes or-nothing at its top level
DenotesNil(s) == NilCount(s) > 0

IsStringLiteral(j) ==
    /\ j.k = "object"
    /\ j.complex_type = <<JString(Str.literal)>>
    /\ j.value # << >>
    /\ j.value[1].k = "string"

(***************************************************************************)
(* C1.  The rendering of a string literal value s, read back by the rules  *)
(* of Lua string literals, is s: the quote and the backslash are each      *)
(* escaped once.                                                           *)
(***************************************************************************)
C1_LiteralReadsBack ==
    (pc = "generated" /\ IsStringLiteral(data))
        => LuaReadString(base) = [ok |-> TRUE, s |-> data.value[1].s]

(***************************************************************************)
(* C2.  A malformed type node never makes decoding return an error, and    *)
(* the run goes on to generation.  (Stated for the runs in which the value *)
(* returned by case "builtin" is not an error, so that an error can only   *)
(* come from a malformed node.)                                            *)
(***************************************************************************)
C2_MalformedNodeDegrades ==
    (pc # "loaded" /\ ~ builtinErr) => (~ err /\ pc # "failed")

(***************************************************************************)
(* C3.  At a nullable annotation site (property, parameter, return value,  *)
(* event data field, prototype property) the type string is the base       *)
(* rendering followed by " | nil" when the base does not denote or-nothing *)
(* at its top level, and is the base rendering otherwise: a "| nil" nested *)
(* inside the base does not count.                                         *)
(***************************************************************************)
C3_SuffixAtNullableSites ==
    (pc = "generated" /\ site # "global" /\ nullable)
        => luaLSType = IF DenotesNil(base) THEN base ELSE base \o Str.orNil

(***************************************************************************)
(* C4.  At a nullable site the type string has exactly one nil alternative *)
(* at its top level, and the suffix step applied to it again changes       *)
(* nothing.  (Stated for the types whose own rendering has at most one nil *)
(* alternative, which include "nil", "void" and a union that starts with   *)
(* nil.)                                                                   *)
(***************************************************************************)
C4_NilExactlyOnce ==
    (pc = "generated" /\ site # "global" /\ nullable /\ NilCount(base) <= 1)
        => /\ NilCount(luaLSType) = 1
           /\ NullableSuffix(luaLSType, TRUE) = luaLSType

(***************************************************************************)
(* C5.  A bare JSON string, decoded and translated without nullability,    *)
(* gives the primitive spelling: "string" gives string; int, uint, long,   *)
(* ulong, float, double and number give number; "boolean" gives boolean;   *)
(* "table" gives table; "nil" and "void" give nil; every other non-empty   *)
(* name is returned unchanged.                                             *)
(***************************************************************************)
C5_Spelling(name) ==
    CASE name = Str.string  -> Str.string
      [] name \in {Str.int, Str.uint, Str.long, Str.ulong,
                   Str.float, Str.double, Str.number} -> Str.number
      [] name = Str.boolean -> Str.boolean
      [] name = Str.table   -> Str.table
      [] name \in {Str.nil, Str.void} -> Str.nil
      [] OTHER              -> name

\* C5 as claimed
C5_BareStringSpelling ==
    (pc = "generated" /\ data.k = "string" /\ data.s # << >>)
        => /\ base = C5_Spelling(data.s)
           /\ (~ nullable /\ ~ optional) => luaLSType = base

\* C5 as amended: "object" gives any; every non-empty name other than it and
\* the primitives above is returned unchanged.
C5_BareStringSpellingAmended ==
    (pc = "generated" /\ data.k = "string" /\ data.s # << >>)
        => /\ base = IF data.s = Str.object THEN Str.any ELSE C5_Spelling(data.s)
           /\ (~ nullable /\ ~ optional) => luaLSType = base

C5_Witness ==
    /\ pc = "generated"
    /\ data = JString(Str.ulong)
    /\ site = "global"
    /\ luaLSType = Str.number

(***************************************************************************)
(* C6.  A union with n >= 1 options renders as the renderings of its       *)
(* options joined by " | " in the order of the source "values" list, which *)
(* decoding keeps.                                                         *)
(***************************************************************************)
RECURSIVE Alternation(_)
Alternation(parts) ==
    IF Len(parts) = 1 THEN parts[1]
    ELSE parts[1] \o Str.bar \o Alternation(Tail(parts))

C6_UnionOrder ==
    (pc = "generated" /\ t.ComplexType = Str.union /\ Len(t.Values) >= 1)
        => /\ data.values[1].k = "array"
           /\ Len(t.Values) = Len(data.values[1].a)
           /\ \A i \in 1..Len(t.Values) :
                 t.Values[i] = UnmarshalJSON(data.values[1].a[i], builtinErr).t
           /\ base = Alternation([i \in 1..Len(t.Values) |->
                                     translateFactorioTypeToLuaLS(t.Values[i])])

C6_Witness ==
    /\ pc = "generated"
    /\ data = JObject(<<JString(Str.union)>>, << >>, << >>, << >>,
                      <<JArray(<<JString(Str.boolean), JString(Str.string),
                                 JString(Str.nil)>>)>>)
    /\ base = Str.boolean \o Str.bar \o Str.string \o Str.bar \o Str.nil

(***************************************************************************)
(* C7.  An array renders as the rendering of its element followed by "[]"; *)
(* arrays nested k deep around a simple type render as that type's         *)
(* spelling followed by "[]" k times.                                      *)
(***************************************************************************)
RECURSIVE ArrayDepth(_)
ArrayDepth(ty) ==
    IF ty.ComplexType = Str.array /\ ty.Value # << >>
    THEN 1 + ArrayDepth(ty.Value[1])
    ELSE 0

RECURSIVE ArrayCore(_)
ArrayCore(ty) ==
    IF ty.ComplexType = Str.array /\ ty.Value # << >>
    THEN ArrayCore(ty.Value[1])
    ELSE ty

RECURSIVE Brackets(_)
Brackets(n) == IF n = 0 THEN << >> ELSE Str.brackets \o Brackets(n - 1)

C7_ArraySuffix ==
    (pc = "generated" /\ t.ComplexType = Str.array /\ t.Value # << >>)
        => /\ t.Value = <<UnmarshalJSON(data.value[1], builtinErr).t>>
           /\ base = translateFactorioTypeToLuaLS(t.Value[1]) \o Str.brackets
           /\ IsSimple(ArrayCore(t))
                => base = TranslateSimple(ArrayCore(t).Name) \o Brackets(ArrayDepth(t))

C7_Witness ==
    /\ pc = "generated"
    /\ ArrayDepth(t) = 2
    /\ ArrayCore(t).Name = Str.string
    /\ base = Str.string \o Str.brackets \o Str.brackets

(***************************************************************************)
(* C8.  A dictionary object with both "key" and "value" renders as         *)
(* "table<K, V>", K the rendering of the key type and V the rendering of   *)
(* the value type, key first.                                              *)
(***************************************************************************)
IsDictionaryObject(j) ==
    j.k = "object" /\ j.complex_type = <<JString(Str.dictionary)>>

C8_DictionaryKeyValue ==
    (pc # "loaded" /\ IsDictionaryObject(data)
     /\ data.key # << >> /\ data.value # << >>)
        => LET k == UnmarshalJSON(data.key[1], builtinErr)
               v == UnmarshalJSON(data.value[1], builtinErr)
           IN  /\ (~ k.err /\ ~ v.err) => ~ err
               /\ pc = "generated"
                    => base = Str.tableOpen \o translateFactorioTypeToLuaLS(k.t)
                              \o Str.commaSpace \o translateFactorioTypeToLuaLS(v.t)
                              \o Str.tableClose

C8_Witness ==
    /\ pc = "generated"
    /\ data = JObject(<<JString(Str.dictionary)>>, << >>, <<JString(Str.int)>>,
                      <<JString(Str.string)>>, << >>)
    /\ base = Str.tableOpen \o Str.string \o Str.commaSpace \o Str.number
              \o Str.tableClose

(***************************************************************************)
(* C9.  Decoding a dictionary object that lacks its "key" (or its "value") *)
(* returns no error, and the Type renders as "table".  (The member the     *)
(* object does carry is a type node that decodes.)                         *)
(***************************************************************************)
C9_DictionaryLacksMember ==
    (pc # "loaded" /\ IsDictionaryObject(data)
     /\ (data.key = << >> \/ data.value = << >>)
     /\ \A m \in {"key", "value"} :
           data[m] # << >> => ~ UnmarshalJSON(data[m][1], builtinErr).err)
        => /\ ~ err
           /\ pc # "failed"
           /\ pc = "generated" => base = Str.table

C9_Witness ==
    /\ pc = "generated"
    /\ data = JObject(<<JString(Str.dictionary)>>, << >>, <<JString(Str.int)>>,
                      << >>, << >>)
    /\ t.Key = << >>
    /\ t.Value # << >>
    /\ base = Str.table

(***************************************************************************)
(* C10.  Translation is total: for every Type the decoder produces, the    *)
(* degraded ones included, translateFactorioTypeToLuaLS returns a string   *)
(* and dereferences no missing nested type.                                *)
(***************************************************************************)
C10_TranslationTotal ==
    pc = "generated"
        => /\ base # PANIC
           /\ \A i \in 1..Len(base) : base[i] # PANIC[1]
           /\ luaLSType # PANIC

C10_Witness ==
    /\ pc = "generated"
    /\ t.ComplexType = Str.type
    /\ t.Value = << >>
    /\ base = Str.any

(***************************************************************************)
(* C11-C13: termination, purity, no trailing whitespace.                   *)
(***************************************************************************)
\* the number of nodes of a Type tree: the node, and the nodes under its
\* Value, Key and Values
RECURSIVE Nodes(_)
RECURSIVE SumNodes(_)
SumNodes(ts) == IF ts = << >> THEN 0 ELSE Nodes(Head(ts)) + SumNodes(Tail(ts))

Nodes(ty) == 1 + SumNodes(ty.Value) + SumNodes(ty.Key) + SumNodes(ty.Values)

\* C11: translation terminates.  Every call of translateFactorioTypeToLuaLS
\* calls itself only on Types with fewer nodes than its own; the calls made
\* and the nodes of the Types still to be called on never exceed the nodes of
\* the tree, so the calls number at most the nodes; and the translation is
\* never cut short by the model's cap on the calls.
C11_CallsBounded ==
    /\ calls + SumNodes(pending) <= Nodes(t)
    /\ pending # << >> =>
          \A i \in 1..Len(Callees(Head(pending))) :
              Nodes(Callees(Head(pending))[i]) < Nodes(Head(pending))
    /\ pc = "translating" => (pending # << >> /\ calls < MaxCalls)

\* a translation of a tree of five nodes or more has returned, having called
\* on every node
C11_Witness == pc = "translated" /\ calls >= 5 /\ calls = Nodes(t)

Whitespace == {" ", TAB, LF, CR}

\* C13: at every site and for either value of the nullable flag, the type
\* string written into the annotation does not end with whitespace.
C13_NoTrailingWhitespace ==
    (pc = "generated" /\ luaLSType # << >>) =>
        luaLSType[Len(luaLSType)] \notin Whitespace

(***************************************************************************)
(* C14-C17: objects without a discriminator, with an unknown one, without  *)
(* their nested value; the builtin marker.                                 *)
(***************************************************************************)
\* the Type a JSON value decodes to when no case takes a string for an error
Decoded(j) == UnmarshalJSON(j, FALSE).t

\* the Type the bare JSON string n decodes to
Simple(n) == Decoded(JString(n))

\* j is an object with the string c as its "complex_type"
HasDiscriminator(j, c) == j.k = "object" /\ j.complex_type = <<JString(c)>>

\* j is an object with a non-empty string as its "name"
HasName(j) ==
    j.k = "object" /\ j.name # << >> /\ j.name[1].k = "string" /\ j.name[1].s # << >>

KnownDiscriminators ==
    {Str.array, Str.dictionary, Str.union, Str.literal, Str.type, Str.struct,
     Str.tuple, Str.builtin}

\* C15: an object whose "complex_type" is a string the decoder does not know
\* translates, when it has a non-empty "name" n, to what the bare string n
\* translates to, and to "any" when it has no name.
C15_UnknownDiscriminator ==
    (/\ pc = "generated"
     /\ data.k = "object"
     /\ \E c \in Discriminators \ (KnownDiscriminators \cup {Str.empty}) :
            HasDiscriminator(data, c)) =>
        base = IF HasName(data)
               THEN translateFactorioTypeToLuaLS(Simple(data.name[1].s))
               ELSE Str.any

\* C16: an array object with no "value" decodes without an error and
\* translates to what an array of "any" translates to; a "type" object with
\* no "value" decodes without an error and translates to "any".
C16_MissingValue ==
    (/\ pc # "loaded"
     /\ HasDiscriminator(data, Str.array) \/ HasDiscriminator(data, Str.type)
     /\ data.value = << >>) =>
        /\ ~ err
        /\ pc = "generated" =>
              base = IF HasDiscriminator(data, Str.array)
                     THEN translateFactorioTypeToLuaLS(
                              Decoded(JObject(<<JString(Str.array)>>, << >>,
                                              <<JString(Str.any)>>, << >>, << >>)))
                     ELSE Str.any

\* C17: {"complex_type":"builtin"} decodes without an error to the builtin
\* marker, which translates to "any".
C17_BuiltinMarker ==
    (/\ pc # "loaded"
     /\ data = JObject(<<JString(Str.builtin)>>, << >>, << >>, << >>, << >>)) =>
        /\ ~ err
        /\ pc # "failed"
        /\ IsBuiltinMarker(t)
        /\ pc = "generated" => base = Str.any

(***************************************************************************)
(* C18-C20: wrappers, tuples, unions without options.                      *)
(***************************************************************************)
\* C18: a "type" object with a "value" translates to what its value
\* translates to, whether or not the object has a name of its own.
C18_WrapperTransparent ==
    (pc = "generated" /\ HasDiscriminator(data, Str.type) /\ data.value # << >>) =>
        /\ t.Value = <<Decoded(data.value[1])>>
        /\ base = translateFactorioTypeToLuaLS(Decoded(data.value[1]))

\* a wrapper named Foo around "string" was rendered as string
C18_Witness ==
    /\ pc = "generated"
    /\ HasDiscriminator(data, Str.type)
    /\ data.name = <<JString(Foo)>>
    /\ data.value = <<JString(Str.string)>>
    /\ base = Str.string

PositionLabels == <<"1", "2", "3", "4", "5", "6", "7", "8", "9">>

\* the entries of a tuple from the i-th on: "i: Ti, ..., n: Tn"
RECURSIVE TupleEntries(_, _)
TupleEntries(elems, i) ==
    <<PositionLabels[i], ":", " ">>
    \o translateFactorioTypeToLuaLS(Decoded(elems[i]))
    \o (IF i < Len(elems) THEN <<",", " ">> \o TupleEntries(elems, i + 1) ELSE << >>)

\* C19: a tuple of n >= 1 elements translates to "{1: T1, 2: T2, ..., n: Tn}",
\* one entry per element of the source list, in its order, the i-th labelled
\* i and holding the translation of the i-th element.
C19_TupleEntries ==
    (/\ pc = "generated"
     /\ HasDiscriminator(data, Str.tuple)
     /\ data.values # << >>
     /\ data.values[1].k = "array"
     /\ Len(data.values[1].a) >= 1) =>
        /\ Len(t.Values) = Len(data.values[1].a)
        /\ base = <<"{">> \o TupleEntries(data.values[1].a, 1) \o <<"}">>

\* a tuple of three elements, not all alike, was rendered
C19_Witness ==
    /\ pc = "generated"
    /\ HasDiscriminator(data, Str.tuple)
    /\ Len(t.Values) = 3
    /\ t.Values[1] # t.Values[2]
    /\ t.Values[2] # t.Values[3]

\* C20: a union object whose "values" is absent, null or the empty list
\* decodes without an error and translates to "any".
C20_EmptyUnion ==
    (/\ pc # "loaded"
     /\ HasDiscriminator(data, Str.union)
     /\ data.values \in {<< >>, <<JNull>>, <<JArray(<< >>)>>}) =>
        /\ ~ err
        /\ Len(t.Values) = 0
        /\ pc = "generated" => base = Str.any

\* {"complex_type":"union","values":[]} was rendered
C20_Witness ==
    /\ pc = "generated"
    /\ HasDiscriminator(data, Str.union)
    /\ data.values = <<JArray(<< >>)>>
    /\ base = Str.any

(***************************************************************************)
(* C21-C24, C29, C30: literals, metadata, variants, optional sites,        *)
(* non-empty and unambiguous renderings.                                   *)
(***************************************************************************)
\* C21: a literal whose "value" is a number or a boolean is rendered
\* verbatim: an integer as the digits the source writes, a boolean as true
\* or false.
C21_LiteralVerbatim ==
    (/\ pc = "generated"
     /\ HasDiscriminator(data, Str.literal)
     /\ data.value # << >>
     /\ data.value[1].k \in {"number", "bool"}) =>
        base = IF data.value[1].k = "number" THEN FormatInt(data.value[1].n)
               ELSE IF data.value[1].b THEN Str.true ELSE Str.false

\* j is an object with a discriminator: a non-empty string "complex_type"
IsComplexObject(j) ==
    j.k = "object" /\ j.complex_type # << >>
    /\ j.complex_type[1].k = "string" /\ j.complex_type[1].s # << >>

\* C22: whatever its discriminator, a complex-type object that carries a
\* "name" and a "description" decodes to a Type that has both: its name is
\* the object's name and its description the object's description.
C22_MetadataRetained ==
    (/\ pc # "loaded"
     /\ ~ err
     /\ IsComplexObject(data)
     /\ HasName(data)
     /\ data.description # << >>
     /\ data.description[1].k = "string") =>
        /\ t.Name = data.name[1].s
        /\ t.BasicMember.Description = data.description[1].s

\* the payload fields each discriminator may populate
Payload(ct) ==
    CASE ct \in {Str.array, Str.type}  -> {"Value"}
      [] ct = Str.dictionary           -> {"Key", "Value"}
      [] ct \in {Str.union, Str.tuple} -> {"Values"}
      [] ct = Str.literal              -> {"LiteralValue"}
      [] OTHER                         -> {}

\* the payload fields of a Type that are set
Populated(ty) ==
    {f \in {"Value", "Key"} : ty[f] # << >>}
    \cup (IF Len(ty.Values) > 0 THEN {"Values"} ELSE {})
    \cup (IF ty.LiteralValue # NilValue THEN {"LiteralValue"} ELSE {})

\* C23: after decoding a type object, only the payload fields of its
\* discriminator are set, whatever other members the object carries.
C23_OneVariant ==
    (pc # "loaded" /\ ~ err /\ data.k = "object") =>
        Populated(t) \subseteq Payload(t.ComplexType)

\* an array object that also carries "key" and "values" was decoded
C23_Witness ==
    /\ pc = "decoded"
    /\ HasDiscriminator(data, Str.array)
    /\ data.key # << >> /\ data.values # << >> /\ data.value # << >>
    /\ Populated(t) = {"Value"}

\* C24: at every site, an entity that is optional and not nullable gets no
\* " | nil" added to its type string.
C24_OptionalAddsNoNil ==
    (pc = "generated" /\ optional /\ ~ nullable) => luaLSType = base

\* C25: once both documents are decoded, generation and translation leave
\* them as they were: whenever definitions were generated, the runtime and
\* the prototype API values, every entity and Type tree of them, equal what
\* decoding the served documents gave.
C25_DocumentsUnchanged ==
    DOMAIN definitions # {} =>
        /\ runtimeAPI = served.runtime.api
        /\ prototypeAPI = served.prototype.api

\* generation returned for documents with classes, a method and prototypes
\* of two typenames, and the files were written
C25_Witness ==
    /\ mpc = "done"
    /\ Len(runtimeAPI.Classes) = 2
    /\ Len(prototypeAPI.Prototypes) = 3
    /\ prototypeAPI.Prototypes[1].TypeName # prototypeAPI.Prototypes[2].TypeName

\* C26: when the download or the parse of either document fails, the run
\* stops before generation and writes no file; files are written only after
\* both documents were parsed and generation returned.
C26_NoPartialResult ==
    /\ served.runtime.kind # "ok" =>
          /\ mpc \in {"start", "fatal"}
          /\ DOMAIN definitions = {}
          /\ files = {}
    /\ served.prototype.kind # "ok" =>
          /\ mpc \in {"start", "runtimeLoaded", "fatal"}
          /\ DOMAIN definitions = {}
          /\ files = {}
    /\ files # {} =>
          /\ runtimeAPI = served.runtime.api /\ served.runtime.kind = "ok"
          /\ prototypeAPI = served.prototype.api /\ served.prototype.kind = "ok"
          /\ DOMAIN definitions = FileNames
          /\ \A f \in files : f.content = definitions[f.name]

\* the runtime document was parsed, the prototype URL answered with a status
\* other than 200, and the run ended
C26_Witness ==
    /\ mpc = "fatal"
    /\ served.runtime.kind = "ok"
    /\ runtimeAPI = served.runtime.api
    /\ served.prototype.kind = "status"
    /\ files = {}

\* the names of the defines of a list and of their subkeys, each parent
\* before its children, by dotted path
RECURSIVE DefinePaths(_, _)
DefinePaths(defines, prefix) ==
    IF defines = << >> THEN << >>
    ELSE LET d == Head(defines)
         IN  <<prefix \o d.Name>>
             \o DefinePaths(d.Subkeys, prefix \o d.Name \o <<".">>)
             \o DefinePaths(Tail(defines), prefix)

\* a declaration, by its tag and the name it declares
Decl(tag, name) == [tag |-> tag, name |-> name]

\* the lines of a file with one of the tags given, each by tag and name
Entries(content, tags) ==
    LET kept == SelectSeq(content, LAMBDA l : l.tag \in tags)
    IN  [i \in 1..Len(kept) |-> Decl(kept[i].tag, kept[i].name)]

\* the declarations the claim expects of a runtime document; conceptTag(c)
\* is the tag of the entry concept c contributes
RuntimeDeclarations(api, conceptTag(_)) ==
    LET paths == DefinePaths(api.Defines, << >>)
    IN  [i \in 1..Len(paths) |-> Decl("class", paths[i])]
        \o [i \in 1..Len(api.Concepts) |->
              Decl(conceptTag(api.Concepts[i]), api.Concepts[i].Name)]
        \o [i \in 1..Len(api.Classes) |-> Decl("class", api.Classes[i].Name)]
        \o [i \in 1..Len(api.GlobalObjects) |-> Decl("type", api.GlobalObjects[i].Name)]
        \o <<Decl("class", <<"E","v","e","n","t","D","a","t","a">>)>>
        \o [i \in 1..Len(api.Events) |->
              Decl("class", EventDataPrefix \o api.Events[i].Name)]

\* each distinct typename has one type class and one data.raw table, the
\* table right after the class and its fields
OnePerTypeName(api, content) ==
    LET typeNames == {api.Prototypes[i].TypeName : i \in 1..Len(api.Prototypes)}
        own == Entries(content, {"class", "type"})
        tail == SelectSeq(own, LAMBDA e :
                    \E tn \in typeNames :
                        e \in {Decl("class", Title(tn) \o PrototypeSuffix),
                               Decl("type", DataRawPrefix \o tn)})
    IN  /\ Len(tail) = 2 * Cardinality(typeNames)
        /\ \A tn \in typeNames :
              \E i \in 1..Len(tail) :
                  /\ i % 2 = 1
                  /\ tail[i] = Decl("class", Title(tn) \o PrototypeSuffix)
                  /\ tail[i + 1] = Decl("type", DataRawPrefix \o tn)

\* C27: every define (nested subkeys too, parent before children, by dotted
\* path), concept, class, global object and event of the runtime document
\* contributes exactly one declaration to runtime.lua, in document order
\* within its section, and each distinct prototype typename one type class
\* and one data.raw table to prototype.lua.
C27_EveryEntityOnce ==
    DOMAIN definitions # {} =>
        /\ Entries(definitions["runtime.lua"], {"class", "alias", "type"})
              = RuntimeDeclarations(runtimeAPI, LAMBDA c : "alias")
        /\ OnePerTypeName(prototypeAPI, definitions["prototype.lua"])

\* C27, amended: a concept whose type has neither a name nor a discriminator
\* contributes a comment line in place of a declaration.
C27_EveryEntityOnceAmended ==
    DOMAIN definitions # {} =>
        /\ Entries(definitions["runtime.lua"], {"class", "alias", "type", "comment"})
              = RuntimeDeclarations(runtimeAPI,
                    LAMBDA c : IF c.Type.Name = << >> /\ c.Type.ComplexType = << >>
                               THEN "comment" ELSE "alias")
        /\ OnePerTypeName(prototypeAPI, definitions["prototype.lua"])

\* generation returned for a runtime document with nested defines, a concept
\* without a type, classes, a global object and events, and a prototype
\* document with two prototypes of one typename and one of another
C27_Witness ==
    /\ mpc = "generated"
    /\ Len(DefinePaths(runtimeAPI.Defines, << >>)) = 5
    /\ Len(runtimeAPI.Concepts) = 3
    /\ Len(runtimeAPI.Classes) = 2
    /\ Len(runtimeAPI.GlobalObjects) = 1
    /\ Len(runtimeAPI.Events) = 2
    /\ Len(prototypeAPI.Prototypes) = 3

\* C28: whatever GenerateDefinitions may return for the decoded documents
\* is what it returned: the text of runtime.lua and of prototype.lua is the
\* same in every run on these documents.
C28_StableOutput ==
    DOMAIN definitions # {} =>
        \A r \in GenerateDefinitionsResults(runtimeAPI, prototypeAPI) :
            /\ definitions["runtime.lua"] = r.runtime
            /\ definitions["prototype.lua"] = r.prototype

\* C29: translateFactorioTypeToLuaLS never returns the empty string.
C29_NonEmpty == pc = "generated" => base # << >>

\* the bare string "" and the object {} were decoded and rendered
C29_Witness ==
    /\ pc = "generated"
    /\ t = ZeroType
    /\ base = Str.any

\* {"complex_type":"array","value":e}
ArrayOf(e) == JObject(<<JString(Str.array)>>, << >>, <<e>>, << >>, << >>)

\* {"complex_type":"union","values":[a, b]}
UnionOf(a, b) ==
    JObject(<<JString(Str.union)>>, << >>, << >>, << >>, <<JArray(<<a, b>>)>>)

\* C30: an array of the union of A and B does not render to the string the
\* union of A and the array of B renders to.
C30_NestingUnambiguous ==
    \A a, b \in Options :
        (pc = "generated" /\ data = ArrayOf(UnionOf(a, b))) =>
            base # translateFactorioTypeToLuaLS(Decoded(UnionOf(a, ArrayOf(b))))

====
